---- MODULE Spec2Model ----
(***************************************************************************)
(* Model of the hand-written recursive-descent parser/evaluator of         *)
(* src/runner.py and of its recognizer-only twin src/scanner.py.           *)
(*                                                                         *)
(* The Python call stack is the variable `stack`: a procedure that has     *)
(* chosen its alternative replaces its own frame by the calls it makes, in *)
(* order, followed by the rest of its body.  A returned value travels in   *)
(* `ret`.  The plex scanner is the environment: every read reveals one     *)
(* more item of the source text, which is recorded in `src`.               *)
(***************************************************************************)
EXTENDS Integers, Sequences, FiniteSets, TLC

VARIABLES
    variant,    \* which file runs: "runner" (evaluator) or "scanner" (recognizer)
    mode,       \* which source texts the environment produces
    src,        \* the items of the source text scanned so far
    eof,        \* the source text ends after src
    pos,        \* number of items the running parser's scanner has read
    la,         \* self.la, the lookahead kind ("None" at end of input)
    val,        \* self.val, the lookahead's matched text
    vars,       \* self.vars, the symbol table
    out,        \* lines printed by print statements
    diag,       \* diagnostic lines printed by the driver
    stack,      \* pending calls and continuations, innermost first
    ret,        \* value returned by the last evaluating procedure
    exc,        \* the exception in flight
    status,     \* "init", "running", "done"
    marks,      \* per statement entered: where it starts and the table then
    first       \* outcome of the evaluator run, kept for the recognizer run

vars_all == <<variant, mode, src, eof, pos, la, val, vars, out, diag, stack,
              ret, exc, status, marks, first>>

----------------------------------------------------------------------------
(* Bounds *)

MaxLen == 6
MaxExprLen == 8

----------------------------------------------------------------------------
(* Tokens of the lexicon *)

Names == {"x", "y"}
Lits == {<<0>>, <<1>>, <<1, 0>>, <<0, 1, 1>>}

Tok(k, l) == [kind |-> k, lex |-> l, nl |-> FALSE]
Keyword(k) == Tok(k, k)
Bad(n) == [kind |-> "bad", lex |-> "&", nl |-> n]

Keywords == {"and", "or", "xor", "=", "print", "(", ")"}

Lexicon ==
    {Keyword(k) : k \in Keywords}
        \cup {Tok("bin", l) : l \in Lits}
        \cup {Tok("id", n) : n \in Names}

FullItems == Lexicon \cup {Bad(n) : n \in BOOLEAN}

ExprItems ==
    {Keyword(k) : k \in {"and", "or", "xor", "print", "=", "(", ")"}}
        \cup {Tok("bin", l) : l \in {<<0>>, <<1>>, <<1, 0>>}}
        \cup {Tok("id", "x")}
        \cup {Bad(TRUE)}

Items == IF mode = "full" THEN FullItems ELSE ExprItems
Limit == IF mode = "full" THEN MaxLen ELSE MaxExprLen

----------------------------------------------------------------------------
(* Values: int(text, 2), format(value, 'b') and the bitwise operators *)

RECURSIVE BinValue(_)
BinValue(digits) ==
    IF digits = <<>> THEN 0
    ELSE 2 * BinValue(SubSeq(digits, 1, Len(digits) - 1)) + digits[Len(digits)]

RECURSIVE FormatB(_)
FormatB(v) ==
    IF v < 2 THEN <<v>> ELSE Append(FormatB(v \div 2), v % 2)

RECURSIVE BitAnd(_, _)
BitAnd(a, b) ==
    IF a = 0 \/ b = 0 THEN 0
    ELSE 2 * BitAnd(a \div 2, b \div 2) + (IF a % 2 = 1 /\ b % 2 = 1 THEN 1 ELSE 0)

RECURSIVE BitOr(_, _)
BitOr(a, b) ==
    IF a = 0 THEN b
    ELSE IF b = 0 THEN a
    ELSE 2 * BitOr(a \div 2, b \div 2) + (IF a % 2 = 1 \/ b % 2 = 1 THEN 1 ELSE 0)

RECURSIVE BitXor(_, _)
BitXor(a, b) ==
    IF a = 0 THEN b
    ELSE IF b = 0 THEN a
    ELSE 2 * BitXor(a \div 2, b \div 2) + (IF a % 2 # b % 2 THEN 1 ELSE 0)

----------------------------------------------------------------------------
(* Frames, exceptions *)

Frame(o) == [op |-> o, tok |-> "", name |-> "", v |-> 0]
MatchF(t) == [op |-> "match", tok |-> t, name |-> "", v |-> 0]
NameF(o, n) == [op |-> o, tok |-> "", name |-> n, v |-> 0]
ValF(o, x) == [op |-> o, tok |-> "", name |-> "", v |-> x]

NoExc == [kind |-> "none", msg |-> <<>>]
PlexError == [kind |-> "PlexError", msg |-> <<>>]
ParseError(m) == [kind |-> "ParseError", msg |-> m]

(* Faulty variants of the code: plausible slips, each of which breaks one  *)
(* of the properties stated at the end of the module.                      *)

\* a failing procedure returns to its caller, which carries on
Unwind_ResumesCaller(pending) == Tail(pending)

\* the lookahead is consumed whatever it is
MatchOk_Always(l, t) == TRUE

\* the inherited left operand is not folded in
XorCombine_DropsInherited(inherited, rest) == rest

\* an existing entry is not overwritten
StoreVar_KeepsOld(t, n, x) ==
    [m \in DOMAIN t \cup {n} |-> IF m \in DOMAIN t THEN t[m] ELSE x]

\* stmt_list also takes ')' for the end of the statements
StmtListEnd_OrParen(l) == l \in {"None", ")"}

\* an absent identifier reads as zero
LookupVar_DefaultZero(t, n) ==
    IF n \in DOMAIN t THEN [found |-> TRUE, v |-> t[n]]
    ELSE [found |-> TRUE, v |-> 0]

\* atom_tail lets a literal through as if it could follow an operand
AtomTailFollow_WithBin == {")", "or", "xor", "id", "print", "None", "bin"}

\* `and` operands are folded with `or`
AtomTailBody_AsOr(inherited) ==
    <<MatchF("and"), Frame("atom"), Frame("atom_tail"), ValF("or", inherited)>>

\* the recognizer does not require '=' after the identifier
RecStmtBody_NoAssign(l) ==
    IF l = "id"
    THEN <<MatchF("id"), Frame("expr")>>
    ELSE <<MatchF("print"), Frame("expr")>>

----------------------------------------------------------------------------
(* The call stack *)

Top == stack[1]
Running(o) == status = "running" /\ stack # <<>> /\ Top.op = o
At(ops) == status = "running" /\ stack # <<>> /\ Top.op \in ops

\* The frame on top is replaced by the calls it makes.
Call(frames) == stack' = frames \o Tail(stack)
\* Return to the caller.
Return == stack' = Tail(stack)
\* No procedure catches: an exception unwinds every pending call up to the
\* driver's try statement.
Unwind(pending) == <<>>

Raise(e) == /\ exc' = e
            /\ stack' = Unwind(stack)

NoVars == [n \in {} |-> 0]

----------------------------------------------------------------------------
(* The scanner: plex.Scanner.read() behind next_token() *)

\* What the next read can deliver: "eof", or an item of the text.
Reads ==
    IF pos < Len(src) THEN {src[pos + 1]}
    ELSE IF eof \/ Len(src) >= Limit THEN {[kind |-> "eof", lex |-> "", nl |-> FALSE]}
    ELSE Items \cup {[kind |-> "eof", lex |-> "", nl |-> FALSE]}

\* self.la, self.val = self.next_token(): the assignment happens only when
\* read() returns; an unrecognized character raises inside read().  `cont`
\* is the stack the caller continues with.
NextToken(item, cont) ==
    /\ pos' = (IF item.kind = "eof" THEN pos ELSE pos + 1)
    /\ src' = (IF pos < Len(src) \/ item.kind = "eof" THEN src ELSE Append(src, item))
    /\ eof' = (eof \/ item.kind = "eof")
    /\ IF item.kind = "bad"
       THEN /\ Raise(PlexError)
            /\ UNCHANGED <<la, val>>
       ELSE /\ la' = (IF item.kind = "eof" THEN "None" ELSE item.kind)
            /\ val' = item.lex
            /\ stack' = cont
            /\ UNCHANGED exc

----------------------------------------------------------------------------
(* FIRST and FOLLOW sets as the procedures test them *)

ExprFirst == {"(", "id", "bin"}
StmtListFirst == {"id", "print"}
TermTailFollow == {")", "id", "print", "None"}
FactorTailFollow == {")", "xor", "id", "print", "None"}
AtomTailFollow == {")", "or", "xor", "id", "print", "None"}

\* match(): the test of the lookahead against the expected token.
MatchOk(l, t) == l = t

\* The value computed by each *_tail procedure from its inherited operand
\* and the result of its recursive call.
XorCombine(inherited, rest) == BitXor(inherited, rest)
OrCombine(inherited, rest) == BitOr(inherited, rest)
AndCombine(inherited, rest) == BitAnd(inherited, rest)

\* self.vars[val_id] = value
StoreVar(t, n, x) == [m \in DOMAIN t \cup {n} |-> IF m = n THEN x ELSE t[m]]

\* stmt_list's empty alternative
StmtListEnd(l) == l = "None"

\* atom(): "if val_id in self.vars: return self.vars[val_id]", else raise
LookupVar(t, n) ==
    IF n \in DOMAIN t THEN [found |-> TRUE, v |-> t[n]]
    ELSE [found |-> FALSE, v |-> 0]

----------------------------------------------------------------------------
(* Bodies of the procedures: the calls made once the alternative is chosen *)

\* runner.py
StmtBody(l, text) ==
    IF l = "id"
    THEN <<MatchF("id"), MatchF("="), Frame("expr"), NameF("stmt_store", text)>>
    ELSE <<MatchF("print"), Frame("expr"), Frame("stmt_print")>>

TermTailBody(inherited) ==
    <<MatchF("xor"), Frame("term"), Frame("term_tail"), ValF("xor", inherited)>>

FactorTailBody(inherited) ==
    <<MatchF("or"), Frame("factor"), Frame("factor_tail"), ValF("or", inherited)>>

AtomTailBody(inherited) ==
    <<MatchF("and"), Frame("atom"), Frame("atom_tail"), ValF("and", inherited)>>

AtomBody(l, text) ==
    IF l = "(" THEN <<MatchF("("), Frame("expr"), MatchF(")")>>
    ELSE IF l = "id" THEN <<MatchF("id"), NameF("atom_id", text)>>
    ELSE <<MatchF("bin"), ValF("atom_bin", BinValue(text))>>

\* scanner.py
RecStmtBody(l) ==
    IF l = "id"
    THEN <<MatchF("id"), MatchF("="), Frame("expr")>>
    ELSE <<MatchF("print"), Frame("expr")>>

RecTermTailBody == <<MatchF("xor"), Frame("term"), Frame("term_tail")>>
RecFactorTailBody == <<MatchF("or"), Frame("factor"), Frame("factor_tail")>>
RecAtomTailBody == <<MatchF("and"), Frame("atom"), Frame("atom_tail")>>

RecAtomBody(l) ==
    IF l = "(" THEN <<MatchF("("), Frame("expr"), MatchF(")")>>
    ELSE IF l = "id" THEN <<MatchF("id")>>
    ELSE <<MatchF("bin")>>

Eval == variant = "runner"

\* The statement being executed starts at item `start` of the text; `tab`
\* is the symbol table at that moment.
Mark == [start |-> pos, tab |-> vars, nout |-> Len(out)]

----------------------------------------------------------------------------
(* Initial state: the driver has created the parser and opened the file *)

InitCommon ==
    /\ variant = "runner"
    /\ src = <<>>
    /\ eof = FALSE
    /\ pos = 0
    /\ la = ""
    /\ val = ""
    /\ vars = NoVars
    /\ out = <<>>
    /\ diag = <<>>
    /\ stack = <<Frame("parse")>>
    /\ ret = 0
    /\ exc = NoExc
    /\ status = "running"
    /\ marks = <<>>
    /\ first = [exc |-> NoExc, ran |-> FALSE]

Init == mode = "full" /\ InitCommon

InitExpr == mode = "expr" /\ InitCommon

----------------------------------------------------------------------------
(* Actions *)

\* parse(): create_scanner() seeds the lookahead, then stmt_list() is called.
Parse ==
    /\ Running("parse")
    /\ \E item \in Reads : NextToken(item, <<Frame("stmt_list")>>)
    /\ UNCHANGED <<variant, mode, vars, out, diag, ret, status, marks, first>>

\* match(token)
Match ==
    /\ Running("match")
    /\ IF MatchOk(la, Top.tok)
       THEN \E item \in Reads : NextToken(item, Tail(stack))
       ELSE /\ Raise(ParseError(<<"found", la, "instead of", Top.tok>>))
            /\ UNCHANGED <<src, eof, pos, la, val>>
    /\ UNCHANGED <<variant, mode, vars, out, diag, ret, status, marks, first>>

\* stmt_list()
StmtList ==
    /\ Running("stmt_list")
    /\ IF la \in StmtListFirst
       THEN Call(<<Frame("stmt"), Frame("stmt_list")>>) /\ UNCHANGED exc
       ELSE IF StmtListEnd(la)
       THEN Return /\ UNCHANGED exc
       ELSE Raise(ParseError(<<"in stmt_list: \"id\" or \"print\" expected">>))
    /\ UNCHANGED <<variant, mode, src, eof, pos, la, val, vars, out, diag, ret,
                   status, marks, first>>

\* stmt(): the choice of the alternative, and what follows expr()
Stmt ==
    /\ At({"stmt", "stmt_store", "stmt_print"})
    /\ CASE Top.op = "stmt" ->
              /\ IF la \in {"id", "print"}
                 THEN /\ Call(IF Eval THEN StmtBody(la, val) ELSE RecStmtBody(la))
                      /\ marks' = Append(marks, Mark)
                      /\ UNCHANGED exc
                 ELSE /\ Raise(ParseError(<<"in stmt: \"id\" or \"print\" expected">>))
                      /\ UNCHANGED marks
              /\ UNCHANGED <<vars, out>>
         [] Top.op = "stmt_store" ->
              /\ vars' = StoreVar(vars, Top.name, ret)
              /\ Return
              /\ UNCHANGED <<out, exc, marks>>
         [] Top.op = "stmt_print" ->
              /\ out' = Append(out, FormatB(ret))
              /\ Return
              /\ UNCHANGED <<vars, exc, marks>>
    /\ UNCHANGED <<variant, mode, src, eof, pos, la, val, diag, ret, status, first>>

\* expr()
Expr ==
    /\ Running("expr")
    /\ IF la \in ExprFirst
       THEN Call(<<Frame("term"), Frame("term_tail")>>) /\ UNCHANGED exc
       ELSE Raise(ParseError(<<"in expr: \"(\", \"id\" or \"bin\" expected">>))
    /\ UNCHANGED <<variant, mode, src, eof, pos, la, val, vars, out, diag, ret,
                   status, marks, first>>

\* term_tail(val_expr): val_expr arrives in ret
TermTail ==
    /\ At({"term_tail", "xor"})
    /\ CASE Top.op = "term_tail" ->
              /\ IF la = "xor"
                 THEN Call(IF Eval THEN TermTailBody(ret) ELSE RecTermTailBody)
                      /\ UNCHANGED exc
                 ELSE IF la \in TermTailFollow
                 THEN Return /\ UNCHANGED exc
                 ELSE Raise(ParseError(
                        <<"in term_tail: \"xor\", \")\", \"id\" or \"print\" expected">>))
              /\ UNCHANGED ret
         [] Top.op = "xor" ->
              /\ ret' = XorCombine(Top.v, ret)
              /\ Return
              /\ UNCHANGED exc
    /\ UNCHANGED <<variant, mode, src, eof, pos, la, val, vars, out, diag,
                   status, marks, first>>

\* term()
Term ==
    /\ Running("term")
    /\ IF la \in ExprFirst
       THEN Call(<<Frame("factor"), Frame("factor_tail")>>) /\ UNCHANGED exc
       ELSE Raise(ParseError(<<"in term: \"(\", \"id\" or \"bin\" expected">>))
    /\ UNCHANGED <<variant, mode, src, eof, pos, la, val, vars, out, diag, ret,
                   status, marks, first>>

\* factor_tail(val_term): val_term arrives in ret
FactorTail ==
    /\ At({"factor_tail", "or"})
    /\ CASE Top.op = "factor_tail" ->
              /\ IF la = "or"
                 THEN Call(IF Eval THEN FactorTailBody(ret) ELSE RecFactorTailBody)
                      /\ UNCHANGED exc
                 ELSE IF la \in FactorTailFollow
                 THEN Return /\ UNCHANGED exc
                 ELSE Raise(ParseError(
                        <<"in term_tail: \"or\", \")\", \"xor\", \"id\" or \"print\" expected">>))
              /\ UNCHANGED ret
         [] Top.op = "or" ->
              /\ ret' = OrCombine(Top.v, ret)
              /\ Return
              /\ UNCHANGED exc
    /\ UNCHANGED <<variant, mode, src, eof, pos, la, val, vars, out, diag,
                   status, marks, first>>

\* factor()
Factor ==
    /\ Running("factor")
    /\ IF la \in ExprFirst
       THEN Call(<<Frame("atom"), Frame("atom_tail")>>) /\ UNCHANGED exc
       ELSE Raise(ParseError(<<"in factor: \"(\", \"id\" or \"bin\" expected">>))
    /\ UNCHANGED <<variant, mode, src, eof, pos, la, val, vars, out, diag, ret,
                   status, marks, first>>

\* atom_tail(val_factor): val_factor arrives in ret
AtomTail ==
    /\ At({"atom_tail", "and"})
    /\ CASE Top.op = "atom_tail" ->
              /\ IF la = "and"
                 THEN Call(IF Eval THEN AtomTailBody(ret) ELSE RecAtomTailBody)
                      /\ UNCHANGED exc
                 ELSE IF la \in AtomTailFollow
                 THEN Return /\ UNCHANGED exc
                 ELSE Raise(ParseError(
                        <<"in atom_tail: \"and\", \")\", \"or\", \"xor\", \"id\" or \"print\" expected">>))
              /\ UNCHANGED ret
         [] Top.op = "and" ->
              /\ ret' = AndCombine(Top.v, ret)
              /\ Return
              /\ UNCHANGED exc
    /\ UNCHANGED <<variant, mode, src, eof, pos, la, val, vars, out, diag,
                   status, marks, first>>

\* atom(): the choice of the alternative, and what follows match()
Atom ==
    /\ At({"atom", "atom_id", "atom_bin"})
    /\ CASE Top.op = "atom" ->
              /\ IF la \in ExprFirst
                 THEN Call(IF Eval THEN AtomBody(la, val) ELSE RecAtomBody(la))
                      /\ UNCHANGED exc
                 ELSE Raise(ParseError(<<"in atom: \"(\", \"id\" or \"bin\" expected">>))
              /\ UNCHANGED ret
         [] Top.op = "atom_id" ->
              IF LookupVar(vars, Top.name).found
              THEN /\ ret' = LookupVar(vars, Top.name).v
                   /\ Return
                   /\ UNCHANGED exc
              ELSE /\ Raise(ParseError(<<"in atom: unrecognized variable name">>))
                   /\ UNCHANGED ret
         [] Top.op = "atom_bin" ->
              /\ ret' = Top.v
              /\ Return
              /\ UNCHANGED exc
    /\ UNCHANGED <<variant, mode, src, eof, pos, la, val, vars, out, diag,
                   status, marks, first>>

\* The driver: parse() returned normally.
Finish ==
    /\ status = "running"
    /\ stack = <<>>
    /\ exc.kind = "none"
    /\ status' = "done"
    /\ UNCHANGED <<variant, mode, src, eof, pos, la, val, vars, out, diag, stack,
                   ret, exc, marks, first>>

\* The line the driver's except clauses print.  The "at line L char C" part
\* comes from plex's position() and is left out.
Diagnostic(e) ==
    IF e.kind = "PlexError"
    THEN <<"Scanner Error:">>
    ELSE <<"Parser Error:">> \o e.msg

\* The driver: one of the except clauses caught the exception.
Report ==
    /\ status = "running"
    /\ stack = <<>>
    /\ exc.kind # "none"
    /\ diag' = Append(diag, Diagnostic(exc))
    /\ status' = "done"
    /\ UNCHANGED <<variant, mode, src, eof, pos, la, val, vars, out, stack,
                   ret, exc, marks, first>>

Next ==
    \/ Parse
    \/ Match
    \/ StmtList
    \/ Stmt
    \/ Expr
    \/ TermTail
    \/ Term
    \/ FactorTail
    \/ Factor
    \/ AtomTail
    \/ Atom
    \/ Finish
    \/ Report

Spec == Init /\ [][Next]_vars_all

\* Longer texts over fewer distinct lexemes.
SpecExpr == InitExpr /\ [][Next]_vars_all

\* The program runs one step after the other until the driver is done.
SpecLive == Init /\ [][Next]_vars_all /\ WF_vars_all(Next)

\* scanner.py is run on the text runner.py was run on: the file is read
\* again from its start (and further, where runner.py stopped early).
RunRecognizer ==
    /\ status = "done"
    /\ variant = "runner"
    /\ first' = [exc |-> exc, ran |-> TRUE]
    /\ variant' = "scanner"
    /\ pos' = 0
    /\ la' = ""
    /\ val' = ""
    /\ vars' = NoVars
    /\ out' = <<>>
    /\ diag' = <<>>
    /\ stack' = <<Frame("parse")>>
    /\ ret' = 0
    /\ exc' = NoExc
    /\ status' = "running"
    /\ marks' = <<>>
    /\ UNCHANGED <<mode, src, eof>>

NextBoth == Next \/ RunRecognizer

SpecBoth == Init /\ [][NextBoth]_vars_all

----------------------------------------------------------------------------
(* Reference semantics of the grammar, by precedence grouping: an          *)
(* expression is split at its last top-level xor, else at its last         *)
(* top-level or, else at its last top-level and; an operand is a literal,  *)
(* an assigned identifier or a parenthesized expression.  -1 stands for    *)
(* "no value" (ill-formed text or an unassigned identifier).               *)

Kinds(text, k) == {i \in 1..Len(text) : text[i].kind = k}

Depth(text, i) ==
    Cardinality({j \in 1..(i - 1) : text[j].kind = "("})
        - Cardinality({j \in 1..(i - 1) : text[j].kind = ")"})

TopLevel(text, k) == {i \in Kinds(text, k) : Depth(text, i) = 0}

Last(S) == CHOOSE i \in S : \A j \in S : j <= i

Lift2(a, b, r) == IF a < 0 \/ b < 0 THEN -1 ELSE r

RECURSIVE RefXor(_, _), RefOr(_, _), RefAnd(_, _), RefAtom(_, _)

RefXor(text, tab) ==
    LET S == TopLevel(text, "xor") IN
    IF S = {} THEN RefOr(text, tab)
    ELSE LET a == RefXor(SubSeq(text, 1, Last(S) - 1), tab)
             b == RefOr(SubSeq(text, Last(S) + 1, Len(text)), tab)
         IN  Lift2(a, b, BitXor(a, b))

RefOr(text, tab) ==
    LET S == TopLevel(text, "or") IN
    IF TopLevel(text, "xor") # {} THEN -1
    ELSE IF S = {} THEN RefAnd(text, tab)
    ELSE LET a == RefOr(SubSeq(text, 1, Last(S) - 1), tab)
             b == RefAnd(SubSeq(text, Last(S) + 1, Len(text)), tab)
         IN  Lift2(a, b, BitOr(a, b))

RefAnd(text, tab) ==
    LET S == TopLevel(text, "and") IN
    IF TopLevel(text, "or") # {} THEN -1
    ELSE IF S = {} THEN RefAtom(text, tab)
    ELSE LET a == RefAnd(SubSeq(text, 1, Last(S) - 1), tab)
             b == RefAtom(SubSeq(text, Last(S) + 1, Len(text)), tab)
         IN  Lift2(a, b, BitAnd(a, b))

RefAtom(text, tab) ==
    IF Len(text) = 1
    THEN IF text[1].kind = "bin" THEN BinValue(text[1].lex)
         ELSE IF text[1].kind = "id" /\ text[1].lex \in DOMAIN tab THEN tab[text[1].lex]
         ELSE -1
    ELSE IF Len(text) >= 3 /\ text[1].kind = "(" /\ text[Len(text)].kind = ")"
              /\ \A i \in 2..Len(text) : Depth(text, i) > 0
    THEN RefXor(SubSeq(text, 2, Len(text) - 1), tab)
    ELSE -1

\* The statement in execution, and the text of its expression consumed so far.
Cur == marks[Len(marks)]
Consumed == IF la = "None" THEN pos ELSE pos - 1
CurIsPrint == src[Cur.start].kind = "print"
CurExpr == SubSeq(src, Cur.start + (IF CurIsPrint THEN 1 ELSE 2), Consumed)

P(k) == Keyword(k)
B(l) == Tok("bin", l)
V(n) == Tok("id", n)

----------------------------------------------------------------------------
(* Claims *)

Prog_OrAnd == <<P("print"), B(<<1>>), P("or"), B(<<0>>), P("and"), B(<<0>>)>>
Prog_AndOr == <<P("print"), B(<<1>>), P("and"), B(<<0>>), P("or"), B(<<1>>)>>
Prog_Xor3 == <<P("print"), B(<<1>>), P("xor"), B(<<1>>), P("xor"), B(<<1>>)>>

Succeeded == status = "done" /\ exc.kind = "none"
AtStmtEnd == Eval /\ At({"stmt_print", "stmt_store"})

\* C1: the value a statement receives from expr() is the value the reference
\* evaluator gives the statement's expression when it groups operands by
\* precedence (parentheses, then and, then or, then xor): print emits that
\* value's binary form, an assignment stores it; `print 1 or 0 and 0` and
\* `print 1 and 0 or 1` both emit 1.
C1_Precedence ==
    [][/\ (Eval /\ Running("stmt_print"))
            => out' = Append(out, FormatB(RefXor(CurExpr, Cur.tab)))
       /\ (Eval /\ Running("stmt_store"))
            => vars'[Top.name] = RefXor(CurExpr, Cur.tab)
       /\ (status' = "done" /\ exc'.kind = "none" /\ src' \in {Prog_OrAnd, Prog_AndOr})
            => out' = << <<1>> >>
      ]_vars_all

C1_Witness == Succeeded /\ src = Prog_OrAnd /\ out = << <<1>> >>

----------------------------------------------------------------------------

Op(k, a, b) ==
    IF k = "xor" THEN BitXor(a, b)
    ELSE IF k = "or" THEN BitOr(a, b)
    ELSE BitAnd(a, b)

\* operand (op operand)+ with one operator kind k and no parentheses
Chain(text, k) ==
    /\ Len(text) >= 3
    /\ Len(text) % 2 = 1
    /\ \A i \in 1..Len(text) :
         IF i % 2 = 1 THEN text[i].kind \in {"bin", "id"} ELSE text[i].kind = k

Operands(text, tab) ==
    [i \in 1..((Len(text) + 1) \div 2) |-> RefAtom(<<text[2 * i - 1]>>, tab)]

RECURSIVE FoldLeft(_, _)
FoldLeft(k, vals) ==
    IF Len(vals) = 1 THEN vals[1]
    ELSE Op(k, FoldLeft(k, SubSeq(vals, 1, Len(vals) - 1)), vals[Len(vals)])

\* the values of all ways to parenthesize vals[1] k vals[2] k ... k vals[n]
RECURSIVE Groupings(_, _)
Groupings(k, vals) ==
    IF Len(vals) = 1 THEN {vals[1]}
    ELSE UNION {{Op(k, a, b) : a \in Groupings(k, SubSeq(vals, 1, i)),
                               b \in Groupings(k, SubSeq(vals, i + 1, Len(vals)))}
                : i \in 1..(Len(vals) - 1)}

Reordered(vals, p) == [i \in 1..Len(vals) |-> vals[p[i]]]

\* C6: for an expression that is a chain of operands joined by one operator,
\* the value the right-recursive *_tail procedures hand to the statement is
\* the strict left-to-right fold of the operands, and the value of every
\* reordering and every reassociation of them; `print 1 xor 1 xor 1` emits 1.
C6_ChainOrderIrrelevant ==
    /\ AtStmtEnd =>
         \A k \in {"xor", "or", "and"} :
            Chain(CurExpr, k) =>
               LET vals == Operands(CurExpr, Cur.tab) IN
               /\ ret = FoldLeft(k, vals)
               /\ \A p \in Permutations(1..Len(vals)) :
                     Groupings(k, Reordered(vals, p)) = {ret}
    /\ (Succeeded /\ src = Prog_Xor3) => out = << <<1>> >>

C6_Witness == Succeeded /\ src = Prog_Xor3 /\ out = << <<1>> >>

----------------------------------------------------------------------------

Prev == marks[Len(marks) - 1]
PrevExpr == SubSeq(src, Prev.start + 2, Cur.start - 1)

\* the statement in execution is `print n`, straight after `n = E`
PrintAfterAssign ==
    /\ Eval
    /\ Running("stmt_print")
    /\ Len(marks) >= 2
    /\ CurIsPrint
    /\ Len(CurExpr) = 1
    /\ CurExpr[1].kind = "id"
    /\ src[Prev.start] = CurExpr[1]
    /\ src[Prev.start + 1].kind = "="

\* C5: when `print x` runs straight after `x = E`, the line it emits is the
\* line `print E` emits from the symbol table that `x = E` started with,
\* i.e. the binary form of E's value in that table (also when E mentions x).
C5_AssignThenPrint ==
    [][PrintAfterAssign
         => out' = Append(out, FormatB(RefXor(PrevExpr, Prev.tab)))
      ]_vars_all

C5_Witness ==
    /\ Succeeded
    /\ Len(marks) = 3
    /\ marks[2].tab = [n \in {"x"} |-> 1]
    /\ src = <<V("x"), P("="), B(<<1>>), V("x"), P("="), V("x"), P("print"), V("x")>>
    /\ out = << <<1>> >>

----------------------------------------------------------------------------

Undefined == ParseError(<<"in atom: unrecognized variable name">>)
BothDone == variant = "scanner" /\ status = "done" /\ first.ran

\* C2 as stated: on every text, the recognizer ends in an error exactly
\* when the evaluator does.
C2_SameVerdict ==
    BothDone => ((first.exc.kind = "none") <=> (exc.kind = "none"))

\* C2 (amended): on every text on which the evaluator does not fail with the
\* undefined-variable error, the recognizer ends exactly as the evaluator
\* does: both succeed, or both fail with the same error; the evaluator
\* rejects every text the recognizer rejects.
C2_SameVerdictUnlessUndefined ==
    BothDone =>
       /\ first.exc # Undefined => exc = first.exc
       /\ exc.kind # "none" => first.exc.kind # "none"

C2_Witness ==
    /\ BothDone
    /\ first.exc = ParseError(<<"found", "bin", "instead of", "=">>)
    /\ exc = first.exc

----------------------------------------------------------------------------

\* statements begin at `print` and at an identifier followed by '='
StmtStarts(text) ==
    {i \in 1..Len(text) :
        \/ text[i].kind = "print"
        \/ text[i].kind = "id" /\ i < Len(text) /\ text[i + 1].kind = "="}

StmtEnd(text, i) ==
    LET later == {j \in StmtStarts(text) : j > i} IN
    IF later = {} THEN Len(text)
    ELSE (CHOOSE j \in later : \A m \in later : j <= m) - 1

AllAssigned == [n \in Names |-> 0]

\* the well-formed print statements of a text
WellFormedPrints(text) ==
    {i \in StmtStarts(text) :
        /\ text[i].kind = "print"
        /\ RefXor(SubSeq(text, i + 1, StmtEnd(text, i)), AllAssigned) >= 0}

ScannerFailed == status = "done" /\ exc.kind = "PlexError"
TextBeforeBad == SubSeq(src, 1, Len(src) - 1)

\* C3: when the run has failed with the Scanner Error on an unrecognized
\* character that stands on a line of its own (after every token scanned
\* before it), every well-formed print statement before it has emitted its
\* line.
C3_PrintsBeforeScannerError ==
    (Eval /\ ScannerFailed /\ src[Len(src)].nl)
        => Len(out) = Cardinality(WellFormedPrints(TextBeforeBad))

----------------------------------------------------------------------------

OperandPosition == {"print", "=", "(", "and", "or", "xor"}

\* item r of the text is an operand of the statement in execution and names
\* an identifier that is not in the symbol table
UndefAt(r) ==
    /\ r \in (Cur.start + 1)..Len(src)
    /\ src[r].kind = "id"
    /\ src[r].lex \notin DOMAIN Cur.tab
    /\ src[r - 1].kind \in OperandPosition

UndefRef == Eval /\ marks # <<>> /\ \E r \in 1..Len(src) : UndefAt(r)

----------------------------------------------------------------------------

\* C7: once an exception is in flight no further item is scanned, no line is
\* printed by a print statement and nothing is stored; the driver prints
\* exactly one diagnostic for it, none without it, and after the diagnostic
\* nothing changes any more.
C7_OneDiagnosticThenNothing ==
    [][/\ exc.kind # "none"
            => (exc' = exc /\ pos' = pos /\ src' = src /\ out' = out /\ vars' = vars)
       /\ diag # <<>> => UNCHANGED vars_all
       /\ Len(diag') <= 1
       /\ (status' = "done" /\ exc'.kind # "none") => diag' = <<Diagnostic(exc')>>
       /\ exc'.kind = "none" => diag' = <<>>
      ]_vars_all

C7_Witness ==
    /\ status = "done"
    /\ exc.kind = "PlexError"
    /\ out # <<>>
    /\ diag = <<Diagnostic(PlexError)>>

----------------------------------------------------------------------------

----------------------------------------------------------------------------

\* C9: every run ends; it ends either successfully, with the lookahead at
\* end of input and every scanned item consumed, or with an error and its
\* diagnostic; a run on the empty text ends successfully with no output.
C9_EndsOneOfTwoWays ==
    /\ <>(status = "done")
    /\ [](status = "done" =>
            \/ /\ exc.kind = "none"
               /\ la = "None" /\ eof /\ pos = Len(src)
               /\ stack = <<>> /\ diag = <<>>
            \/ /\ exc.kind # "none"
               /\ diag = <<Diagnostic(exc)>>)
    /\ []((status = "done" /\ src = <<>>) => (exc.kind = "none" /\ out = <<>>))

C9_Witness ==
    /\ Succeeded
    /\ eof
    /\ src = <<P("print"), B(<<0, 1, 1>>)>>
    /\ out = << <<1, 1>> >>

----------------------------------------------------------------------------

StmtError == ParseError(<<"in stmt: \"id\" or \"print\" expected">>)
TermTailError ==
    ParseError(<<"in term_tail: \"xor\", \")\", \"id\" or \"print\" expected">>)
FactorTailError ==
    ParseError(<<"in term_tail: \"or\", \")\", \"xor\", \"id\" or \"print\" expected">>)
AtomTailError ==
    ParseError(<<"in atom_tail: \"and\", \")\", \"or\", \"xor\", \"id\" or \"print\" expected">>)

\* C10: stmt is entered only with the lookahead id or print, term_tail and
\* factor_tail only with a lookahead they accept, so their final error
\* branches are never taken and their messages never raised.
C10_DeadErrorBranches ==
    /\ Running("stmt") => la \in {"id", "print"}
    /\ Running("term_tail") => la \in {"xor", ")", "id", "print", "None"}
    /\ Running("factor_tail") => la \in {"or", ")", "xor", "id", "print", "None"}
    /\ exc \notin {StmtError, TermTailError, FactorTailError}

C10_Witness ==
    /\ status = "done"
    /\ exc = AtomTailError
    /\ src = <<P("print"), B(<<1>>), B(<<1>>)>>

====
